---- MODULE Spec2Model ----
(***************************************************************************)
(* Model of the port-knock server, src/port_knocking/knock_server.py:      *)
(* main() (parse the sequence, close the protected port, listen) and       *)
(* listen_for_knocks() (bind one listening socket per knock port, then     *)
(* poll the sockets in sequence order, one accept per socket per turn,     *)
(* and sweep the expired attempts at the end of every turn).  The clients  *)
(* (src/port_knocking/knock_client.py) are the environment: a client       *)
(* connects to a listening knock port and the connection waits in that     *)
(* socket's backlog until the loop accepts it.                             *)
(***************************************************************************)
EXTENDS Integers, Sequences, FiniteSets

\* ---------------------------------------------------------------- bounds
\* Wall-clock time is counted in whole ticks, 0..MaxTime.
MaxTime == 4
\* window_seconds (--window), in ticks.
WindowSeconds == 2
\* Connection attempts the clients make in one run, all addresses together.
MaxConnects == 4

\* ------------------------------------------------------- program constants
\* DEFAULT_KNOCK_SEQUENCE
sequence == <<1234, 5678, 9012>>
\* sock.listen(5)
ListenBacklog == 5
\* Source addresses of the clients.
Addrs == {"A", "B"}
\* What subprocess.run(..., check=True) can do: return, exit non-zero
\* (CalledProcessError), not find the command (FileNotFoundError), or raise
\* anything else while launching it (PermissionError, another OSError).
RunOutcomes == {"ok", "nonzero", "missing", "error"}

Range(s) == {s[i] : i \in 1..Len(s)}
KnockPorts == Range(sequence)

\* Connection attempts in the runs checked for liveness: one full sequence.
MaxLiveConnects == Len(sequence)

VARIABLES
    args,            \* args.sequence, the --sequence argument as given
    deny_result,     \* history: how the iptables command of the deny ended
    pc,              \* where main() / listen_for_knocks() stands
    bind_idx,        \* position of `for port in sequence` (bind loop)
    sockets,         \* the list `sockets`: the ports that did bind, in order
    poll_idx,        \* position of `for knock_port, sock in sockets`
    knock_attempts,  \* the dict knock_attempts: ip -> {ports, start_time}
    client_ip,       \* the handler's client_ip while open_protected_port runs
    backlog,         \* per listening port: the connections waiting for accept
    now,             \* time.time()
    grant_calls,     \* history: open_protected_port calls made, per address
    deny_calls,      \* history: close_protected_port calls made
    trail,           \* history: per address, the knock events processed
                     \* since the last one that found no session for it
    attempts,        \* history: per address, the ports it connected to, in
                     \* the order the connections were made
    connects         \* history: connections made so far (bounds the run)

vars == <<args, deny_result, pc, bind_idx, sockets, poll_idx, knock_attempts,
          client_ip, backlog, now, grant_calls, deny_calls, trail, attempts,
          connects>>

server_vars == <<args, deny_result, pc, bind_idx, sockets, poll_idx,
                 knock_attempts, client_ip, grant_calls, deny_calls, trail>>

NoClient == "-"
NotObserved == "-"

\* ------------------------------------------------------------ the session store
HasSession(store, ip) == ip \in DOMAIN store

Put(store, ip, rec) == [x \in DOMAIN store \cup {ip} |-> IF x = ip THEN rec ELSE store[x]]

Delete(store, ip) == [x \in DOMAIN store \ {ip} |-> store[x]]

\* Mutant: an attempt expires when its age reaches the window.
ExpiredAtWindow(current_time, start_time) ==
    current_time - start_time >= WindowSeconds

\* Mutant: the window is never checked.
NeverExpired(current_time, start_time) == FALSE

\* knock_server.py:106-107  elapsed > window_seconds
Expired(current_time, start_time) == current_time - start_time > WindowSeconds

\* Mutant: the reset of an expired entry keeps the old start_time.
RecordKnockKeepsStart(store, ip, knock_port, current_time) ==
    IF ~HasSession(store, ip)
    THEN Put(store, ip, [ports |-> <<knock_port>>, start_time |-> current_time])
    ELSE IF Expired(current_time, store[ip].start_time)
         THEN Put(store, ip, [ports |-> <<knock_port>>,
                              start_time |-> store[ip].start_time])
         ELSE Put(store, ip, [ports |-> Append(store[ip].ports, knock_port),
                              start_time |-> store[ip].start_time])

\* knock_server.py:99-115: create the entry when the ip has none, then reset
\* it when its window expired, otherwise append the knock.
RecordKnock(store, ip, knock_port, current_time) ==
    LET s1 == IF ~HasSession(store, ip)
              THEN Put(store, ip, [ports |-> <<>>, start_time |-> current_time])
              ELSE store
    IN IF Expired(current_time, s1[ip].start_time)
       THEN Put(s1, ip, [ports |-> <<knock_port>>, start_time |-> current_time])
       ELSE Put(s1, ip, [ports |-> Append(s1[ip].ports, knock_port),
                         start_time |-> s1[ip].start_time])

\* Mutant: the sequence is also compared as soon as it leaves the prefix of
\* the policy sequence.
CompleteOrDeviates(current_sequence) ==
    \/ Len(current_sequence) >= Len(sequence)
    \/ current_sequence # SubSeq(sequence, 1, Len(current_sequence))

\* knock_server.py:122  len(current_sequence) == len(sequence)
IsComplete(current_sequence) == Len(current_sequence) = Len(sequence)

\* Mutant: a sequence of the full length is not compared at all.
AnyFullSequence(current_sequence) == TRUE

\* Mutant: the ports are compared as a set, whatever their order.
SameElements(current_sequence) == Range(current_sequence) = Range(sequence)

\* knock_server.py:123  current_sequence == sequence
IsCorrect(current_sequence) == current_sequence = sequence

\* Mutant: the whole dict is cleared after a grant.
ClearAll(store, ip) == [x \in {} |-> 0]

\* knock_server.py:127  del knock_attempts[client_ip], after the grant
ClearGranted(store, ip) == Delete(store, ip)

\* Mutant: a mismatching attempt is kept.
RejectKeeps(store, ip) == store

\* knock_server.py:131  del knock_attempts[client_ip], after a mismatch
Reject(store, ip) == Delete(store, ip)

\* Mutant: the clean-up removes nothing.
SweepKeepsAll(store, current_time) == store

\* knock_server.py:139-146: the clean-up at the end of a turn.
SweepStore(store, current_time) ==
    LET expired_ips == {ip \in DOMAIN store :
                            Expired(current_time, store[ip].start_time)}
    IN [x \in DOMAIN store \ expired_ips |-> store[x]]

\* ------------------------------------------------------------- history
\* trail[a]: ports, the ports of the knock events of a processed since the
\* last one that found no session for a; t0, the time of the first of these;
\* in_window, whether all of them were processed within window_seconds of the
\* first; g0, the grant calls made for a before the first.
NoTrail == [ports |-> <<>>, t0 |-> 0, in_window |-> TRUE, g0 |-> 0]

Extend(tr, store, ip, port, t, g) ==
    IF HasSession(store, ip)
    THEN [tr EXCEPT ![ip].ports = Append(@, port),
                    ![ip].in_window = @ /\ t - tr[ip].t0 <= WindowSeconds]
    ELSE [tr EXCEPT ![ip] = [ports |-> <<port>>, t0 |-> t, in_window |-> TRUE,
                             g0 |-> g]]

\* --------------------------------------------------------- the arguments
\* A --sequence argument, split at the commas: each token is an integer
\* literal, some other word, or the empty string.
Tok(n) == [kind |-> "int", value |-> n]
NotANumber == [kind |-> "word", value |-> 0]
EmptyToken == [kind |-> "empty", value |-> 0]
SequenceArgs ==
    { <<Tok(1234), Tok(5678), Tok(9012)>>,   \* the default, "1234,5678,9012"
      <<Tok(1234), NotANumber>>,             \* "1234,abc"
      <<EmptyToken>> }                       \* "": "".split(",") is [""]

\* Mutant: only the first token is converted.
FirstTokenRaises(raw) == raw[1].kind # "int"

\* knock_server.py:178  [int(port) for port in args.sequence.split(",")]
RaisesValueError(raw) == \E i \in 1..Len(raw) : raw[i].kind # "int"
ParseInts(raw) == [i \in 1..Len(raw) |-> raw[i].value]

\* ---------------------------------------------------------------- Init
Init ==
    /\ args \in SequenceArgs
    /\ deny_result = NotObserved
    /\ pc = "parse"
    /\ bind_idx = 1
    /\ sockets = <<>>
    /\ poll_idx = 1
    /\ knock_attempts = [x \in {} |-> 0]
    /\ client_ip = NoClient
    /\ backlog = [p \in KnockPorts |-> <<>>]
    /\ now = 0
    /\ grant_calls = [a \in Addrs |-> 0]
    /\ deny_calls = 0
    /\ trail = [a \in Addrs |-> NoTrail]
    /\ attempts = [a \in Addrs |-> <<>>]
    /\ connects = 0


\* ---------------------------------------------------------------- main()
\* Mutant: main() goes on to listen without closing the protected port.
AfterParseSkipsClose == "bind"

\* knock_server.py:182-187: main() closes the protected port, then listens.
AfterParse == "deny"
AfterClose == "bind"

\* knock_server.py:177-180
ParseSequence ==
    /\ pc = "parse"
    /\ pc' = IF RaisesValueError(args) THEN "fatal" ELSE AfterParse
    /\ UNCHANGED <<args, deny_result, bind_idx, sockets, poll_idx,
                   knock_attempts, client_ip, backlog, now, grant_calls,
                   deny_calls, trail, attempts, connects>>

\* Mutant: a deny command that fails stops main().
CloseFailureStops(outcome) == IF outcome = "ok" THEN AfterClose ELSE "crashed"

\* knock_server.py:43-58 called at 185: the two exceptions the function
\* catches (non-zero exit, command missing) are logged and it returns
\* normally; any other leaves main().
AfterCloseOutcome(outcome) ==
    IF outcome = "error" THEN "crashed" ELSE AfterClose

\* knock_server.py:43-58 called at 185: close_protected_port.
CloseProtectedPort ==
    /\ pc = "deny"
    /\ deny_calls' = deny_calls + 1
    /\ \E outcome \in RunOutcomes : pc' = AfterCloseOutcome(outcome)
    /\ UNCHANGED <<args, deny_result, bind_idx, sockets, poll_idx,
                   knock_attempts, client_ip, backlog, now, grant_calls,
                   trail, attempts, connects>>

\* The same, with the end of the command recorded.
CloseProtectedPortRecorded ==
    /\ pc = "deny"
    /\ deny_calls' = deny_calls + 1
    /\ \E outcome \in RunOutcomes :
          /\ pc' = AfterCloseOutcome(outcome)
          /\ deny_result' = outcome
    /\ UNCHANGED <<args, bind_idx, sockets, poll_idx, knock_attempts,
                   client_ip, backlog, now, grant_calls, trail, attempts,
                   connects>>

\* ------------------------------------------------------ listen_for_knocks()
\* The state the loop enters after the sockets are set up, and after each
\* socket of a turn: the next socket, or the clean-up when none is left.
AfterSocket(i, socks) == IF i < Len(socks) THEN "accept" ELSE "sweep"
NextIdx(i, socks) == IF i < Len(socks) THEN i + 1 ELSE 1

\* Mutant: a failed bind ends the engine.
BindFailureAborts(i, socks, bound) ==
    IF ~bound THEN "crashed"
    ELSE IF i < Len(sequence) THEN "bind" ELSE AfterSocket(0, socks)

\* knock_server.py:73-86: after port i of the bind loop, bound or not
\* (82-84: the error is logged, `continue`): the next port, or the loop.
AfterBind(i, socks, bound) ==
    IF i < Len(sequence) THEN "bind" ELSE AfterSocket(0, socks)

\* knock_server.py:73-84: one port of the bind loop; a failed bind is logged
\* and the port is skipped.
BindPort ==
    /\ pc = "bind"
    /\ \E bound \in BOOLEAN :
          LET socks == IF bound THEN Append(sockets, sequence[bind_idx])
                       ELSE sockets
          IN /\ sockets' = socks
             /\ bind_idx' = IF bind_idx < Len(sequence) THEN bind_idx + 1
                            ELSE bind_idx
             /\ pc' = AfterBind(bind_idx, socks, bound)
    /\ UNCHANGED <<args, deny_result, poll_idx, knock_attempts, client_ip,
                   backlog, now, grant_calls, deny_calls, trail, attempts,
                   connects>>

knock_port == sockets[poll_idx]

\* Mutant: an error leaves the loop.
ErrorEndsLoop(i, socks) == "crashed"

\* knock_server.py:135-136  except Exception: the error is logged and the
\* for loop goes on with the next socket.
AfterError(i, socks) == AfterSocket(i, socks)

\* knock_server.py:133-134: accept() times out, no connection is waiting.
AcceptTimeout ==
    /\ pc = "accept"
    /\ backlog[knock_port] = <<>>
    /\ pc' = AfterSocket(poll_idx, sockets)
    /\ poll_idx' = NextIdx(poll_idx, sockets)
    /\ UNCHANGED <<args, deny_result, bind_idx, sockets, knock_attempts,
                   client_ip, backlog, now, grant_calls, deny_calls, trail,
                   attempts, connects>>

\* knock_server.py:135-136: accept() raises another error; it is logged and
\* the loop goes on with the next socket.
AcceptError ==
    /\ pc = "accept"
    /\ pc' = AfterError(poll_idx, sockets)
    /\ poll_idx' = NextIdx(poll_idx, sockets)
    /\ UNCHANGED <<args, deny_result, bind_idx, sockets, knock_attempts,
                   client_ip, backlog, now, grant_calls, deny_calls, trail,
                   attempts, connects>>

\* Mutant: an address that was granted before is not granted again.
GrantOnce(calls, ip) ==
    IF calls[ip] > 0 THEN calls ELSE [calls EXCEPT ![ip] = @ + 1]

\* knock_server.py:126  open_protected_port(protected_port) is called for the
\* address; what was granted before is not looked at.
OpenProtectedPort(calls, ip) == [calls EXCEPT ![ip] = @ + 1]

\* knock_server.py:91-131: accept a waiting connection and process the knock,
\* up to the call of open_protected_port (126) when the sequence is correct.
AcceptKnock ==
    /\ pc = "accept"
    /\ backlog[knock_port] # <<>>
    /\ LET ip == Head(backlog[knock_port])
           store == RecordKnock(knock_attempts, ip, knock_port, now)
           current_sequence == store[ip].ports
       IN /\ backlog' = [backlog EXCEPT ![knock_port] = Tail(@)]
          /\ trail' = Extend(trail, knock_attempts, ip, knock_port, now,
                             grant_calls[ip])
          /\ IF IsComplete(current_sequence)
             THEN IF IsCorrect(current_sequence)
                  THEN /\ knock_attempts' = store
                       /\ grant_calls' = OpenProtectedPort(grant_calls, ip)
                       /\ client_ip' = ip
                       /\ pc' = "granting"
                       /\ poll_idx' = poll_idx
                  ELSE /\ knock_attempts' = Reject(store, ip)
                       /\ pc' = AfterSocket(poll_idx, sockets)
                       /\ poll_idx' = NextIdx(poll_idx, sockets)
                       /\ UNCHANGED <<grant_calls, client_ip>>
             ELSE /\ knock_attempts' = store
                  /\ pc' = AfterSocket(poll_idx, sockets)
                  /\ poll_idx' = NextIdx(poll_idx, sockets)
                  /\ UNCHANGED <<grant_calls, client_ip>>
    /\ UNCHANGED <<args, deny_result, bind_idx, sockets, now, deny_calls,
                   attempts, connects>>

\* knock_server.py:24-40 and 126-127, 135-136: open_protected_port returns
\* (also when it caught the command's failure) and the attempt is deleted; an
\* exception it does not catch skips the del and is logged by the loop.
OpenProtectedPortReturns ==
    /\ pc = "granting"
    /\ \E outcome \in RunOutcomes :
          IF outcome = "error"
          THEN /\ knock_attempts' = knock_attempts
               /\ pc' = AfterError(poll_idx, sockets)
          ELSE /\ knock_attempts' = ClearGranted(knock_attempts, client_ip)
               /\ pc' = AfterSocket(poll_idx, sockets)
    /\ client_ip' = NoClient
    /\ poll_idx' = NextIdx(poll_idx, sockets)
    /\ UNCHANGED <<args, deny_result, bind_idx, sockets, backlog, now,
                   grant_calls, deny_calls, trail, attempts, connects>>

\* Mutant: the clean-up runs in a thread of its own, at any point of the loop.
SweepAnyTime ==
    /\ pc \in {"accept", "granting", "sweep"}
    /\ knock_attempts' = SweepStore(knock_attempts, now)
    /\ pc' = IF pc = "sweep" THEN AfterSocket(0, sockets) ELSE pc
    /\ poll_idx' = IF pc = "sweep" THEN 1 ELSE poll_idx
    /\ UNCHANGED <<args, deny_result, bind_idx, sockets, client_ip, backlog,
                   now, grant_calls, deny_calls, trail, attempts, connects>>

\* knock_server.py:138-148: clean up the expired attempts, then the next turn.
Sweep ==
    /\ pc = "sweep"
    /\ knock_attempts' = SweepStore(knock_attempts, now)
    /\ pc' = AfterSocket(0, sockets)
    /\ poll_idx' = 1
    /\ UNCHANGED <<args, deny_result, bind_idx, sockets, client_ip, backlog,
                   now, grant_calls, deny_calls, trail, attempts, connects>>

\* ------------------------------------------------------------ environment
\* knock_client.py:19-22: a client connects to a knock port that listens; the
\* connection waits in the socket's backlog (knock_server.py:78).
SendKnock(a, p, limit) ==
    /\ connects < limit
    /\ p \in Range(sockets)
    /\ Len(backlog[p]) < ListenBacklog
    /\ backlog' = [backlog EXCEPT ![p] = Append(@, a)]
    /\ connects' = connects + 1
    /\ UNCHANGED <<server_vars, now>>

Connect ==
    \E a \in Addrs, p \in KnockPorts :
        SendKnock(a, p, MaxConnects) /\ UNCHANGED attempts

\* The same, with the order of each address's connections recorded.
ConnectRecorded ==
    \E a \in Addrs, p \in KnockPorts :
        /\ SendKnock(a, p, MaxConnects)
        /\ attempts' = [attempts EXCEPT ![a] = Append(@, p)]

\* The same, in the runs checked for liveness.
ConnectLive ==
    \E a \in Addrs, p \in KnockPorts :
        SendKnock(a, p, MaxLiveConnects) /\ UNCHANGED attempts

\* Time passes.
Tick ==
    /\ now < MaxTime
    /\ now' = now + 1
    /\ UNCHANGED <<server_vars, backlog, attempts, connects>>

\* One step of the `while True` loop.
Loop ==
    \/ AcceptTimeout
    \/ AcceptError
    \/ AcceptKnock
    \/ OpenProtectedPortReturns
    \/ Sweep

\* One step of the server: main() up to the loop, then the loop.
Server ==
    \/ ParseSequence
    \/ CloseProtectedPort
    \/ BindPort
    \/ Loop

Next == Server \/ Connect \/ Tick

Spec == Init /\ [][Next]_vars

\* The runs in which the order of the clients' connections is recorded.
NextOrder == Server \/ ConnectRecorded \/ Tick

SpecOrder == Init /\ [][NextOrder]_vars

\* The runs checked for liveness: the loop keeps running (every call it makes
\* returns) and time advances; the clients are free to stop.
NextLive == Server \/ ConnectLive \/ Tick

SpecLive == Init /\ [][NextLive]_vars /\ WF_vars(Server) /\ WF_vars(Tick)

\* The loop at the start of a turn, observed late in a run (the clock stands
\* at MaxTime, so that sessions of every age 0..MaxTime occur): any store the
\* loop can have built by then (sessions shorter than the sequence, or the
\* sequence itself, kept after a grant call that raised), the addresses
\* not granted before or granted once each, and at most one connection
\* waiting on each port. The histories restart here, and no time passes
\* and no client connects: the steps are those of the loop.
PortSeqs ==
    UNION { [1..n -> KnockPorts] : n \in 1..(Len(sequence) - 1) } \cup {sequence}
Sessions(t) == [ports : PortSeqs, start_time : 0..t]
Stores(t) == UNION { [D -> Sessions(t)] : D \in SUBSET Addrs }

InitStores ==
    /\ args = <<Tok(1234), Tok(5678), Tok(9012)>>
    /\ deny_result = NotObserved
    /\ pc = "accept"
    /\ bind_idx = Len(sequence)
    /\ sockets = sequence
    /\ poll_idx = 1
    /\ now = MaxTime
    /\ knock_attempts \in Stores(now)
    /\ client_ip = NoClient
    /\ backlog \in [KnockPorts -> {<<>>} \cup { <<a>> : a \in Addrs }]
    /\ grant_calls \in { [a \in Addrs |-> n] : n \in 0..1 }
    /\ deny_calls = 1
    /\ trail = [a \in Addrs |-> NoTrail]
    /\ attempts = [a \in Addrs |-> <<>>]
    /\ connects = 0

SpecStores == InitStores /\ [][Loop]_vars

\* The server with the end of the deny command recorded, and clients that
\* make as many connections as one knock sequence has.
ServerRecorded ==
    \/ ParseSequence
    \/ CloseProtectedPortRecorded
    \/ BindPort
    \/ Loop

NextDeny == ServerRecorded \/ ConnectLive \/ Tick
SpecDeny == Init /\ [][NextDeny]_vars


\* ================================================================= claims
\* The step accepts a waiting connection of address a (the knock event of a
\* on knock_port at time now is processed in this step).
Accepted(a) ==
    /\ pc = "accept"
    /\ backlog[knock_port] # <<>>
    /\ Head(backlog[knock_port]) = a
    /\ backlog'[knock_port] = Tail(backlog[knock_port])

\* The step invokes grant(protected_port, a).
Granted(a) == grant_calls'[a] # grant_calls[a]

Age(store, a, t) == t - store[a].start_time

\* ---------------------------------------------------------------------- C1
\* C1: grant(protected_port, a) is invoked only in a step that processes a
\* knock of a and leaves a's received_ports equal to the policy sequence;
\* every knock that enters a session is processed no later than
\* window_seconds after the session's started_at; started_at is the time of
\* the session's first knock and an append does not change it.
C1_GrantOnlyOnExactMatchInWindow ==
    [][\A a \in Addrs :
         /\ Granted(a) =>
               /\ Accepted(a)
               /\ grant_calls'[a] = grant_calls[a] + 1
               /\ HasSession(knock_attempts', a)
               /\ knock_attempts'[a].ports = sequence
         /\ (Accepted(a) /\ HasSession(knock_attempts', a)) =>
               /\ Age(knock_attempts', a, now) >= 0
               /\ Age(knock_attempts', a, now) <= WindowSeconds
               /\ Len(knock_attempts'[a].ports) = 1 =>
                     knock_attempts'[a].start_time = now
         /\ (HasSession(knock_attempts, a) /\ HasSession(knock_attempts', a)
               /\ knock_attempts'[a] # knock_attempts[a]) =>
               /\ Accepted(a)
               /\ Len(knock_attempts'[a].ports) > 1 =>
                     /\ knock_attempts'[a].ports =
                            Append(knock_attempts[a].ports, knock_port)
                     /\ knock_attempts'[a].start_time =
                            knock_attempts[a].start_time
      ]_vars

\* A grant is being made for a session whose last knock came exactly
\* window_seconds after its first.
C1_Witness ==
    /\ pc = "granting"
    /\ knock_attempts[client_ip].ports = sequence
    /\ grant_calls[client_ip] = 1
    /\ Age(knock_attempts, client_ip, now) = WindowSeconds

\* ---------------------------------------------------------------------- C9
\* C9: close_protected_port is invoked at most once, exactly once in every
\* run that goes on to bind; before it is invoked no knock port is bound, no
\* connection waits or was accepted, and no grant was made.
C9_DenyOnceBeforeAnyKnock ==
    /\ deny_calls <= 1
    /\ pc \in {"bind", "accept", "granting", "sweep"} => deny_calls = 1
    /\ deny_calls = 0 =>
          /\ sockets = <<>>
          /\ \A p \in KnockPorts : backlog[p] = <<>>
          /\ DOMAIN knock_attempts = {}
          /\ \A a \in Addrs : grant_calls[a] = 0 /\ trail[a].ports = <<>>

C9_Witness ==
    /\ pc = "granting"
    /\ deny_calls = 1
    /\ grant_calls[client_ip] = 1


\* The received_ports the specified transition (steps 1-2) gives address a
\* for a knock on port at time t: a fresh session when a has none or its age
\* exceeds the window, otherwise the port appended.
Received(store, a, port, t) ==
    IF ~HasSession(store, a) \/ Age(store, a, t) > WindowSeconds
    THEN <<port>>
    ELSE Append(store[a].ports, port)

\* ---------------------------------------------------------------------- C2
\* C2: when the knock events of an address, from one that found no session
\* for it, are the ports of the policy sequence in policy order, each
\* processed within window_seconds of the first, then exactly one grant call
\* was made for the address since, and once that call has returned no
\* session of the address remains.
C2_SequenceGrantsOnceAndClears ==
    \A a \in Addrs :
        (trail[a].ports = sequence /\ trail[a].in_window) =>
            /\ grant_calls[a] = trail[a].g0 + 1
            /\ (pc = "granting" /\ client_ip = a) \/ ~HasSession(knock_attempts, a)

\* ---------------------------------------------------------------------- C5
\* C5: when the knock that brings received_ports of a to the policy length
\* leaves it different from the policy sequence, the step makes no grant call
\* and removes the session of a; a knock of an address that has no session
\* starts a session holding only that port.
C5_MismatchRejectsAndClears ==
    [][\A a \in Addrs :
         /\ (/\ Accepted(a)
             /\ Len(Received(knock_attempts, a, knock_port, now)) = Len(sequence)
             /\ Received(knock_attempts, a, knock_port, now) # sequence) =>
               /\ grant_calls' = grant_calls
               /\ pc' # "granting"
               /\ ~HasSession(knock_attempts', a)
         /\ (Accepted(a) /\ ~HasSession(knock_attempts, a)) =>
               /\ HasSession(knock_attempts', a)
               /\ knock_attempts'[a] =
                     [ports |-> <<knock_port>>, start_time |-> now]
      ]_vars

\* The policy ports knocked in another order, within the window: rejected.
C5_Witness ==
    \E a \in Addrs :
        /\ Len(trail[a].ports) = Len(sequence)
        /\ Range(trail[a].ports) = Range(sequence)
        /\ trail[a].ports # sequence
        /\ trail[a].in_window
        /\ grant_calls[a] = 0
        /\ ~HasSession(knock_attempts, a)

\* ---------------------------------------------------------------------- C6
\* C6: a knock (a, port, t) that finds a session of a older than
\* window_seconds replaces it by the session [port] started at t (and makes
\* no grant call), so the ports received before are in no later session.
C6_ExpiredSessionIsReplaced ==
    [][\A a \in Addrs :
         (/\ Accepted(a)
          /\ HasSession(knock_attempts, a)
          /\ Age(knock_attempts, a, now) > WindowSeconds) =>
            /\ HasSession(knock_attempts', a)
            /\ knock_attempts'[a] =
                  [ports |-> <<knock_port>>, start_time |-> now]
            /\ grant_calls' = grant_calls
      ]_vars

\* The policy sequence knocked with the first gap longer than the window: the
\* session holds the last two ports only and no grant was made.
C6_Witness ==
    \E a \in Addrs :
        /\ trail[a].ports = sequence
        /\ ~trail[a].in_window
        /\ HasSession(knock_attempts, a)
        /\ knock_attempts[a].ports = Tail(sequence)
        /\ knock_attempts[a].start_time > trail[a].t0 + WindowSeconds
        /\ grant_calls[a] = 0

C10_SessionsShorterThanSequence ==
    pc # "granting" =>
        \A a \in DOMAIN knock_attempts :
            Len(knock_attempts[a].ports) < Len(sequence)


\* ---------------------------------------------------------------------- C3
\* The connections address a made, in the order it made them, contain the
\* policy sequence as a run of consecutive connections.
KnockedInOrder(a) ==
    \E i \in 1..Len(attempts[a]) :
        /\ i + Len(sequence) - 1 <= Len(attempts[a])
        /\ SubSeq(attempts[a], i, i + Len(sequence) - 1) = sequence

\* C3: an address is granted only if it made its connections to the knock
\* ports in the policy order.
C3_WrongOrderNeverGranted ==
    \A a \in Addrs : grant_calls[a] > 0 => KnockedInOrder(a)

\* ---------------------------------------------------------------------- C4
Pending(a) == \E p \in KnockPorts : a \in Range(backlog[p])

\* C4: an address with no session whose connections were exactly the policy
\* sequence, made in policy order and all accepted within the window, is
\* granted.
C4_RightOrderGranted ==
    \A a \in Addrs :
        (/\ attempts[a] = sequence
         /\ ~Pending(a)
         /\ Len(trail[a].ports) = Len(sequence)
         /\ trail[a].in_window) =>
            grant_calls[a] >= 1

\* ---------------------------------------------------------------------- C8
\* C8: a session of an address is eventually removed or replaced; in a run in
\* which the address sends nothing further it is the sweep that removes it.
\* (Sessions started so late that the modelled clock ends inside their window
\* are left out.)
C8_AbandonedSessionIsSwept ==
    \A a \in Addrs : \A s \in 0..(MaxTime - WindowSeconds - 1) :
        (HasSession(knock_attempts, a) /\ knock_attempts[a].start_time = s)
            ~> ~(HasSession(knock_attempts, a) /\ knock_attempts[a].start_time = s)

\* An address knocked once, nothing of it is waiting, and its session is gone.
C8_Witness ==
    \E a \in Addrs :
        /\ Len(trail[a].ports) = 1
        /\ ~Pending(a)
        /\ ~HasSession(knock_attempts, a)
        /\ now > trail[a].t0 + WindowSeconds

\* --------------------------------------------------------------------- C11
\* The step in which the grant call of client_ip returns.
GrantReturns == pc = "granting" /\ pc' # "granting"

\* C11: however the grant call ends (success, non-zero exit, missing
\* command, any other error), the session of the address is gone when the
\* call has returned, in that same step, and the call is not made again.
C11_FailedGrantStillClears ==
    [][GrantReturns =>
          /\ ~HasSession(knock_attempts', client_ip)
          /\ grant_calls' = grant_calls]_vars

\* --------------------------------------------------------------------- C12
\* C12: the grant calls for an address are counted by the steps in which a
\* knock of the address brings its received_ports to the policy sequence:
\* every such step makes exactly one call for the address, also when the
\* address was granted before, and no other step makes one.
C12_OneGrantPerMatch ==
    [][\A a \in Addrs :
          grant_calls'[a] =
              IF Accepted(a)
                 /\ Received(knock_attempts, a, knock_port, now) = sequence
              THEN grant_calls[a] + 1
              ELSE grant_calls[a]]_vars

\* The grant call is in progress for an address that was granted before.
C12_Witness ==
    \E a \in Addrs :
        pc = "granting" /\ client_ip = a /\ grant_calls[a] = 2

\* --------------------------------------------------------------------- C13
\* A connection of another address than the one being granted waits on a
\* bound port.
OthersWaiting ==
    \E p \in Range(sockets) :
        backlog[p] # <<>> /\ Head(backlog[p]) # client_ip

\* C13: while the grant call for one address is in progress, a waiting knock
\* of another address can be accepted and processed, and the sweep can run.
C13_GrantDoesNotStallOthers ==
    (pc = "granting" /\ OthersWaiting) =>
        (ENABLED AcceptKnock) /\ (ENABLED Sweep)

\* --------------------------------------------------------------------- C14
LoopStages == {"accept", "granting", "sweep"}

\* The step that ends the attempt to bind port bind_idx of the sequence.
BindStep == pc = "bind" /\ <<pc, bind_idx>>' # <<pc, bind_idx>>

\* C14: an attempt to bind a port either adds the port to the bound sockets
\* or skips it; after it the next port of the sequence is tried, and after
\* the last port the engine is in its loop, whichever ports failed. The
\* engine never stops because of a bind.
C14_BindFailureSkipsPort ==
    /\ [][BindStep =>
             /\ sockets' \in {sockets, Append(sockets, sequence[bind_idx])}
             /\ IF bind_idx < Len(sequence)
                THEN pc' = "bind" /\ bind_idx' = bind_idx + 1
                ELSE pc' \in LoopStages]_vars
    /\ [](pc \in {"fatal", "crashed"} => bind_idx = 1 /\ sockets = <<>>)
    /\ [](pc \in LoopStages => bind_idx = Len(sequence))

\* The first port failed to bind, the later ones are bound, and a knock on
\* the last port has been processed.
C14_Witness ==
    /\ pc \in LoopStages
    /\ sockets = Tail(sequence)
    /\ \E a \in Addrs :
          /\ HasSession(knock_attempts, a)
          /\ knock_attempts[a].ports = <<sequence[Len(sequence)]>>

\* --------------------------------------------------------------------- C15
\* The configured sequence is not usable: it is empty (the argument is the
\* empty string), or one of its elements is not a number.
InvalidSequence(raw) ==
    \/ raw = <<EmptyToken>>
    \/ \E i \in 1..Len(raw) : raw[i].kind = "word"

\* C15: with an invalid sequence the start ends in the fatal stage, and the
\* engine has made no deny call, bound no port, processed no knock and made
\* no grant call; with a valid one it goes on, with the parsed ports as its
\* policy.
C15_InvalidSequenceIsFatal ==
    /\ [][pc = "parse" /\ pc' # "parse" =>
             (pc' = "fatal") = InvalidSequence(args)]_vars
    /\ [](InvalidSequence(args) =>
             /\ pc \in {"parse", "fatal"}
             /\ deny_calls = 0
             /\ sockets = <<>>
             /\ knock_attempts = << >>
             /\ \A a \in Addrs : grant_calls[a] = 0 /\ trail[a] = NoTrail)
    /\ [](pc \notin {"parse", "fatal"} => ParseInts(args) = sequence)
    /\ [][pc = "fatal" => pc' = "fatal"]_vars

\* The start has ended on a sequence with an element that is not a number.
C15_Witness == pc = "fatal" /\ \E i \in 1..Len(args) : args[i].kind = "word"

\* --------------------------------------------------------------------- C16
\* The loop is done with the socket it polled (the step is not a knock that
\* starts a grant call).
SocketDone ==
    \/ pc = "accept" /\ pc' # "granting" /\ <<pc, poll_idx>>' # <<pc, poll_idx>>
    \/ GrantReturns

\* C16: the loop is never left; when it is done with a socket, with or
\* without an error (timeout, socket error, knock processed, grant call
\* returned or raised), it polls the next bound socket of the turn, or after
\* the last one runs the sweep of that turn, and after the sweep it starts
\* the next turn at the first socket.
C16_ErrorsDoNotEndLoop ==
    /\ [][(pc \in LoopStages) => (pc' \in LoopStages)]_vars
    /\ [][SocketDone =>
             IF poll_idx < Len(sockets)
             THEN pc' = "accept" /\ poll_idx' = poll_idx + 1
             ELSE pc' = "sweep"]_vars
    /\ [][pc = "sweep" /\ pc' # "sweep" => pc' = "accept" /\ poll_idx' = 1]_vars

\* A knock was processed after a grant call raised: it was appended to the
\* session the failed call left behind.
C16_Witness ==
    \E a \in Addrs :
        /\ HasSession(knock_attempts, a)
        /\ Len(knock_attempts[a].ports) > Len(sequence)

\* --------------------------------------------------------------------- C17
\* The knocks of a processed since it last had no session are a stray knock
\* followed by all ports of the sequence but the last, in order.
StrayThenPrefix(a) ==
    /\ Len(trail[a].ports) = Len(sequence)
    /\ Tail(trail[a].ports) = SubSeq(sequence, 1, Len(sequence) - 1)

\* C17: a knock that leaves the received ports of its address shorter than
\* the sequence keeps the session with these ports, whatever they are, and
\* makes no grant call. A stray knock followed by the right sequence gives no
\* grant: with the last knock but one the session is full, differs from the
\* sequence and is deleted without a grant call, and the last right knock
\* only starts a new session.
C17_NoEarlyRejection ==
    /\ [][\A a \in Addrs :
             LET ports == Received(knock_attempts, a, knock_port, now)
             IN (Accepted(a) /\ Len(ports) < Len(sequence)) =>
                   /\ HasSession(knock_attempts', a)
                   /\ knock_attempts'[a].ports = ports
                   /\ grant_calls' = grant_calls]_vars
    /\ [](\A a \in Addrs :
             (StrayThenPrefix(a) /\ trail[a].in_window) =>
                 /\ ~HasSession(knock_attempts, a)
                 /\ grant_calls[a] = trail[a].g0)
    /\ [][\A a \in Addrs :
             (/\ Accepted(a)
              /\ StrayThenPrefix(a)
              /\ trail[a].in_window
              /\ knock_port = sequence[Len(sequence)]) =>
                 /\ grant_calls' = grant_calls
                 /\ knock_attempts'[a].ports = <<knock_port>>]_vars

\* A stray knock and the first two right knocks of an address were processed
\* within the window and its session is gone; its last right knock waits on
\* the socket the loop polls.
C17_Witness ==
    \E a \in Addrs :
        /\ StrayThenPrefix(a)
        /\ trail[a].in_window
        /\ ~HasSession(knock_attempts, a)
        /\ pc = "accept"
        /\ knock_port = sequence[Len(sequence)]
        /\ backlog[knock_port] = <<a>>
        /\ now <= trail[a].t0 + WindowSeconds

\* --------------------------------------------------------------------- C18
\* A step of the engine in the clean-up stage.
SweepStep == pc = "sweep" /\ now' = now /\ backlog' = backlog

\* C18: the sweep removes the sessions older than window_seconds and no
\* other; the sessions it keeps, those of age window_seconds included, are
\* unchanged; it makes no grant call and no deny call.
C18_SweepRemovesExactlyExpired ==
    [][SweepStep =>
          /\ DOMAIN knock_attempts' =
                { a \in DOMAIN knock_attempts :
                      Age(knock_attempts, a, now) <= WindowSeconds }
          /\ \A a \in DOMAIN knock_attempts' :
                knock_attempts'[a] = knock_attempts[a]
          /\ grant_calls' = grant_calls
          /\ deny_calls' = deny_calls
          /\ pc' # "granting"]_vars

\* A sweep has run: the session of an address, shorter than the sequence and
\* older than the window, is gone, while the other address keeps a session
\* whose age is the window.
C18_Witness ==
    \E a, b \in Addrs :
        /\ pc = "accept" /\ poll_idx = 1
        /\ ~HasSession(knock_attempts, a)
        /\ Len(trail[a].ports) \in 1..(Len(sequence) - 1)
        /\ ~Pending(a)
        /\ HasSession(knock_attempts, b)
        /\ Age(knock_attempts, b, now) = WindowSeconds

\* --------------------------------------------------------------------- C19
\* C19: the transition of one knock event, from its accept to the return of
\* its grant call, is not interleaved with a sweep or with the transition of
\* another event: while it is under way no connection is accepted, no knock
\* is recorded, and the store changes only by its own last step, which
\* touches the session of its own address only.
C19_TransitionsAreSerialized ==
    [][pc = "granting" =>
          /\ \A p \in KnockPorts : Len(backlog'[p]) >= Len(backlog[p])
          /\ trail' = trail
          /\ grant_calls' = grant_calls
          /\ knock_attempts' # knock_attempts => GrantReturns
          /\ \A a \in Addrs \ {client_ip} :
                /\ HasSession(knock_attempts', a) = HasSession(knock_attempts, a)
                /\ HasSession(knock_attempts, a) =>
                      knock_attempts'[a] = knock_attempts[a]]_vars

\* The transition of an event is under way while the session of another
\* address is older than the window: a sweep is due and has to wait.
C19_Witness ==
    /\ pc = "granting"
    /\ \E a \in Addrs \ {client_ip} :
          /\ HasSession(knock_attempts, a)
          /\ Age(knock_attempts, a, now) > WindowSeconds

\* --------------------------------------------------------------------- C20
\* The specified steps 1 and 2 for a knock of a on port at time t: a session
\* that is missing or older than the window is replaced by one that holds
\* the knock and starts at t; otherwise the knock is appended.
SpecSession(store, a, port, t) ==
    IF ~HasSession(store, a) \/ Age(store, a, t) > WindowSeconds
    THEN [ports |-> <<port>>, start_time |-> t]
    ELSE [ports |-> Append(store[a].ports, port),
          start_time |-> store[a].start_time]

SpecRecord(store, a, port, t) ==
    [x \in DOMAIN store \cup {a} |->
        IF x = a THEN SpecSession(store, a, port, t) ELSE store[x]]

\* C20: for every store and every knock event the store the code builds
\* (create an empty entry, then reset it if expired, else append) is the store
\* of the specified steps 1 and 2, and the store a knock step leaves is that
\* store, without the session when it is full and wrong. Expiry is strict
\* on both paths: at age window_seconds a knock is appended to the session
\* and a sweep keeps it.
C20_TransitionRefinesSpec ==
    /\ [](\A a \in Addrs : \A p \in KnockPorts :
             RecordKnock(knock_attempts, a, p, now)
                 = SpecRecord(knock_attempts, a, p, now))
    /\ [][\A a \in Addrs :
             Accepted(a) =>
                LET after == SpecRecord(knock_attempts, a, knock_port, now)
                    full == Len(after[a].ports) = Len(sequence)
                IN knock_attempts' =
                      IF full /\ after[a].ports # sequence
                      THEN [x \in DOMAIN after \ {a} |-> after[x]]
                      ELSE after]_vars
    /\ [][\A a \in Addrs :
             (/\ Accepted(a)
              /\ HasSession(knock_attempts, a)
              /\ Age(knock_attempts, a, now) = WindowSeconds
              /\ Len(knock_attempts[a].ports) + 1 < Len(sequence)) =>
                 knock_attempts'[a] =
                    [ports |-> Append(knock_attempts[a].ports, knock_port),
                     start_time |-> knock_attempts[a].start_time]]_vars
    /\ [][SweepStep =>
             \A a \in DOMAIN knock_attempts :
                 Age(knock_attempts, a, now) = WindowSeconds =>
                    /\ HasSession(knock_attempts', a)
                    /\ knock_attempts'[a] = knock_attempts[a]]_vars

\* A knock was appended to a session whose age was the window, and the sweep
\* of the turn kept the session.
C20_Witness ==
    \E a \in Addrs :
        /\ trail[a].ports # <<>>
        /\ HasSession(knock_attempts, a)
        /\ Len(knock_attempts[a].ports) = 2
        /\ Age(knock_attempts, a, now) = WindowSeconds
        /\ pc = "accept" /\ poll_idx = 1

\* --------------------------------------------------------------------- C21
\* The bind loop is over and a port of the sequence is not among the bound
\* sockets.
PortFailedToBind ==
    /\ pc \in LoopStages
    /\ \E i \in 1..Len(sequence) : sequence[i] \notin Range(sockets)

\* C21: in a run in which a port of the sequence failed to bind no knock on
\* that port is ever recorded, no session ever holds the sequence, and no
\* grant call is made for any address; the loop goes on all the same.
C21_NoGrantWithUnboundPort ==
    /\ [](PortFailedToBind =>
             /\ \A a \in Addrs :
                   /\ grant_calls[a] = 0
                   /\ Range(trail[a].ports) \subseteq Range(sockets)
                   /\ HasSession(knock_attempts, a) =>
                         knock_attempts[a].ports # sequence
             /\ pc # "granting")
    /\ [][PortFailedToBind => (pc' \in LoopStages)]_vars

\* One port failed to bind, and an address that filled a session with knocks
\* on the others was rejected.
C21_Witness ==
    /\ PortFailedToBind
    /\ Len(sockets) = Len(sequence) - 1
    /\ \E a \in Addrs :
          /\ Len(trail[a].ports) = Len(sequence)
          /\ trail[a].in_window
          /\ ~HasSession(knock_attempts, a)

\* --------------------------------------------------------------------- C22
\* The command of the deny call exited non-zero or was not found.
DenyFailed == deny_result \in {"nonzero", "missing"}

\* C22: when the command of the deny call fails, main() goes on to bind the
\* knock ports: the engine is never stopped by it, in the start or later, and
\* the deny call is not made again.
C22_DenyFailureDoesNotStop ==
    /\ [][(pc = "deny" /\ pc' # "deny"
              /\ deny_result' \in {"nonzero", "missing"}) =>
             pc' = "bind"]_vars
    /\ [](DenyFailed => (pc \in {"bind"} \cup LoopStages) /\ deny_calls = 1)

\* The deny command failed, all knock ports are bound, a knock sequence was
\* processed and the grant call for its address is in progress.
C22_Witness ==
    /\ DenyFailed
    /\ sockets = sequence
    /\ pc = "granting"
    /\ grant_calls[client_ip] = 1

====
